---- MODULE Spec2Model ----
(***************************************************************************)
(* Model of the ORF detection engine of orf_analyzer.py:                   *)
(* reverse_complement and the six-frame scan of find_orfs.                 *)
(* A nucleotide string is a sequence of one-character strings; Python's    *)
(* 0-based offsets i, j are kept, the 1-based TLA+ index is offset + 1.    *)
(***************************************************************************)
EXTENDS Integers, Sequences, FiniteSets, TLC

(* ---------------------------- bounds ----------------------------------- *)
\* every string over ACGT up to this length is an input
MaxLen == 6
\* codon-built inputs have up to this many codons (after a prefix of 0..2 nt)
MaxCodons == 4

(* ---------------------------- helpers ---------------------------------- *)
\* src/orf_analyzer.py:14  str.maketrans("ACGT", "TGCA")
_COMP_bad == [c \in {"A", "C", "G", "T"} |->
                <<"T", "G", "C", "T">>[CHOOSE k \in 1..4 : <<"A", "C", "G", "T">>[k] = c]]

_COMP == [c \in {"A", "C", "G", "T"} |->
            <<"T", "G", "C", "A">>[CHOOSE k \in 1..4 : <<"A", "C", "G", "T">>[k] = c]]

STOP_CODONS_noTGA == {<<"T", "A", "A">>, <<"T", "A", "G">>}

\* src/orf_analyzer.py:15
STOP_CODONS == {<<"T", "A", "A">>, <<"T", "A", "G">>, <<"T", "G", "A">>}

\* str.translate: characters without a table entry are kept
translate(s, table) ==
    [k \in 1..Len(s) |-> IF s[k] \in DOMAIN table THEN table[s[k]] ELSE s[k]]

\* the slice s[::-1]
Reversed(s) == [k \in 1..Len(s) |-> s[Len(s) + 1 - k]]

\* the Python slice s[a:b] for 0 <= a (clamped at the end of s)
Slice(s, a, b) ==
    LET hi == IF b < Len(s) THEN b ELSE Len(s)
    IN  IF a >= hi THEN <<>> ELSE SubSeq(s, a + 1, hi)

reverse_complement_noreverse(s) == translate(s, _COMP)

\* src/orf_analyzer.py:18-19
reverse_complement(s) == Reversed(translate(s, _COMP))

\* src/orf_analyzer.py:57-58, 75: the inner for loop from offset j on; the
\* offset of the first in-frame stop codon, or -1 when the loop runs out
\* (the for-else branch)
RECURSIVE ForJ(_, _)
ForJ(ws, j) ==
    IF j >= Len(ws) - 2 THEN -1
    ELSE IF Slice(ws, j, j + 3) \in STOP_CODONS THEN j
    ELSE ForJ(ws, j + 3)

\* a coordinate translation that forgets the "+ 1" of the reflected start
Coords_bad(strand, i, j, seq_len) ==
    IF strand = "+"
    THEN [start |-> i + 1, end |-> j + 3]
    ELSE [start |-> seq_len - (j + 3), end |-> seq_len - i]

\* a forward start that stays 0-based
Coords_zero_based(strand, i, j, seq_len) ==
    IF strand = "+"
    THEN [start |-> i, end |-> j + 3]
    ELSE [start |-> seq_len - (j + 3) + 1, end |-> seq_len - i]

\* src/orf_analyzer.py:61-65
Coords(strand, i, j, seq_len) ==
    IF strand = "+"
    THEN [start |-> i + 1, end |-> j + 3]
    ELSE [start |-> seq_len - (j + 3) + 1, end |-> seq_len - i]

\* a candidate record that reports the 0-based frame
Orf_bad(strand, frame, i, j, seq_len) ==
    [strand |-> strand,
     frame  |-> frame,
     start  |-> Coords(strand, i, j, seq_len).start,
     end    |-> Coords(strand, i, j, seq_len).end,
     length |-> j + 3 - i]

\* src/orf_analyzer.py:59-72  the dict appended for a hit (i, j)
Orf(strand, frame, i, j, seq_len) ==
    [strand |-> strand,
     frame  |-> frame + 1,
     start  |-> Coords(strand, i, j, seq_len).start,
     end    |-> Coords(strand, i, j, seq_len).end,
     length |-> j + 3 - i]

\* sorted(orfs, key=lambda x: -x["length"]) is a stable sort: an element is
\* placed behind every element already there whose key is <= its own
RECURSIVE InsertStable(_, _)
InsertStable(x, s) ==
    IF s = <<>> THEN <<x>>
    ELSE IF -Head(s).length <= -x.length
         THEN <<Head(s)>> \o InsertStable(x, Tail(s))
         ELSE <<x>> \o s

RECURSIVE InsertUnstable(_, _)
InsertUnstable(x, s) ==
    IF s = <<>> THEN <<x>>
    ELSE IF -Head(s).length < -x.length
         THEN <<Head(s)>> \o InsertUnstable(x, Tail(s))
         ELSE <<x>> \o s

RECURSIVE sorted_unstable(_)
sorted_unstable(l) ==
    IF l = <<>> THEN <<>>
    ELSE InsertUnstable(l[Len(l)], sorted_unstable(SubSeq(l, 1, Len(l) - 1)))

\* src/orf_analyzer.py:79
RECURSIVE sorted(_)
sorted(l) ==
    IF l = <<>> THEN <<>>
    ELSE InsertStable(l[Len(l)], sorted(SubSeq(l, 1, Len(l) - 1)))

(* ---------------------------- inputs ----------------------------------- *)
Bases == {"A", "C", "G", "T"}

RECURSIVE Strings(_)
Strings(n) ==
    IF n = 0 THEN {<<>>}
    ELSE LET S == Strings(n - 1)
         IN  S \cup {Append(s, c) : s \in {t \in S : Len(t) = n - 1}, c \in Bases}

\* start and stop codons of both strands (CAT and TTA read ATG and TAA on
\* the reverse complement)
CodonPool ==
    {<<"A", "T", "G">>, <<"T", "A", "A">>, <<"T", "G", "A">>, <<"C", "A", "T">>, <<"T", "T", "A">>}

\* prefixes shift the codons into frames 1..3; "N" is a non-ACGT character
Prefixes == {<<>>, <<"N">>, <<"G", "N">>}

RECURSIVE CodonStrings(_)
CodonStrings(n) ==
    IF n = 0 THEN {<<>>}
    ELSE LET S == CodonStrings(n - 1)
         IN  S \cup {s \o c : s \in {t \in S : Len(t) = 3 * (n - 1)}, c \in CodonPool}

SEQ_ATGAAATAA == <<"A", "T", "G", "A", "A", "A", "T", "A", "A">>
SEQ_ATGAAA == <<"A", "T", "G", "A", "A", "A">>
SEQ_18 == <<"A", "A", "A", "T", "T", "A", "A", "T", "G", "C", "C", "C", "T", "A", "A", "G", "G", "G">>

\* "ATGTAAAAAATGTAATTATTTCAT": two ORFs of 6 in frame 1 of "+", one of 9 on "-"
SEQ_24 ==
    <<"A", "T", "G", "T", "A", "A", "A", "A", "A", "A", "T", "G", "T", "A", "A", "T", "T", "A", "T", "T", "T", "C", "A", "T">>

\* "ATGTAAAAAATGTTA": an ORF of 6, then an ATG without a stop, in frame 1 of "+"
SEQ_15 ==
    <<"A", "T", "G", "T", "A", "A", "A", "A", "A", "A", "T", "G", "T", "T", "A">>

\* "ATGTAAATGTTATAA": an ORF of 6, directly followed by an ATG with a stop
SEQ_15B ==
    <<"A", "T", "G", "T", "A", "A", "A", "T", "G", "T", "T", "A", "T", "A", "A">>

MinLens == {-1, 7, 10}

Inputs ==
    ((Strings(MaxLen) \cup {p \o s : p \in Prefixes, s \in CodonStrings(MaxCodons)}) \X MinLens)
    \cup {<<SEQ_ATGAAATAA, 1>>, <<SEQ_ATGAAA, 1>>, <<SEQ_18, 3>>, <<SEQ_24, 1>>, <<SEQ_15, 1>>,
          <<SEQ_15B, -1>>, <<SEQ_15B, 7>>}

(* ---------------------------- state ------------------------------------ *)
VARIABLES seq, min_len, pc, orfs, seq_len, rc_seq, strand, frame, i, result

\* the command line: program, file argument ("" when absent), --min, the
\* files of the working directory, and the state of the script
VARIABLES prog, arg_file, args_min, fs, cli_pc, filepath, records, idx, out, exit_code

orf_vars == <<seq, min_len, pc, orfs, seq_len, rc_seq, strand, frame, i, result>>

cli_vars == <<prog, arg_file, args_min, fs, cli_pc, filepath, records, idx, out, exit_code>>

vars == <<seq, min_len, pc, orfs, seq_len, rc_seq, strand, frame, i, result,
          prog, arg_file, args_min, fs, cli_pc, filepath, records, idx, out, exit_code>>

\* src/orf_analyzer.py:52
working_seq == IF strand = "+" THEN seq ELSE rc_seq

\* find_orfs called as a function: no script is running
CliIdle ==
    /\ prog = "none"
    /\ arg_file = ""
    /\ args_min = 100
    /\ fs = <<>>
    /\ cli_pc = "idle"
    /\ filepath = ""
    /\ records = <<>>
    /\ idx = 0
    /\ out = <<>>
    /\ exit_code = -1

Init ==
    /\ \E in \in Inputs : seq = in[1] /\ min_len = in[2]
    /\ pc = "call"
    /\ orfs = <<>>
    /\ seq_len = 0
    /\ rc_seq = <<>>
    /\ strand = "+"
    /\ frame = 0
    /\ i = 0
    /\ result = <<>>
    /\ CliIdle

\* src/orf_analyzer.py:48-54
Enter ==
    /\ pc = "call"
    /\ orfs' = <<>>
    /\ seq_len' = Len(seq)
    /\ rc_seq' = reverse_complement(seq)
    /\ strand' = "+"
    /\ frame' = 0
    /\ i' = 0
    /\ pc' = "while"
    /\ UNCHANGED <<seq, min_len, result>>
    /\ UNCHANGED cli_vars

\* an iteration that forgets to advance
WhileNotStart_stuck ==
    /\ pc = "while"
    /\ i + 3 <= Len(working_seq)
    /\ Slice(working_seq, i, i + 3) # <<"A", "T", "G">>
    /\ UNCHANGED vars

\* src/orf_analyzer.py:55-56, 77: the codon at i is not ATG
WhileNotStart ==
    /\ pc = "while"
    /\ i + 3 <= Len(working_seq)
    /\ Slice(working_seq, i, i + 3) # <<"A", "T", "G">>
    /\ i' = i + 3
    /\ UNCHANGED <<seq, min_len, pc, orfs, seq_len, rc_seq, strand, frame, result>>
    /\ UNCHANGED cli_vars

\* src/orf_analyzer.py:55-74, 77: ATG at i and a first in-frame stop at j;
\* after "i = j + 3; break" the statement "i += 3" of line 77 still runs
WhileOrf ==
    /\ pc = "while"
    /\ i + 3 <= Len(working_seq)
    /\ Slice(working_seq, i, i + 3) = <<"A", "T", "G">>
    /\ LET j == ForJ(working_seq, i)
       IN  /\ j # -1
           /\ orfs' = IF j + 3 - i >= min_len
                      THEN Append(orfs, Orf(strand, frame, i, j, seq_len))
                      ELSE orfs
           /\ i' = (j + 3) + 3
    /\ UNCHANGED <<seq, min_len, pc, seq_len, rc_seq, strand, frame, result>>
    /\ UNCHANGED cli_vars

\* an open ORF that is stepped over instead of ending the frame
WhileOpen_continue ==
    /\ pc = "while"
    /\ i + 3 <= Len(working_seq)
    /\ Slice(working_seq, i, i + 3) = <<"A", "T", "G">>
    /\ ForJ(working_seq, i) = -1
    /\ i' = i + 3
    /\ UNCHANGED <<seq, min_len, pc, orfs, seq_len, rc_seq, strand, frame, result>>
    /\ UNCHANGED cli_vars

\* src/orf_analyzer.py:55-58, 75-76: ATG at i and no in-frame stop behind it
WhileOpen ==
    /\ pc = "while"
    /\ i + 3 <= Len(working_seq)
    /\ Slice(working_seq, i, i + 3) = <<"A", "T", "G">>
    /\ ForJ(working_seq, i) = -1
    /\ pc' = "for_frame"
    /\ UNCHANGED <<seq, min_len, orfs, seq_len, rc_seq, strand, frame, i, result>>
    /\ UNCHANGED cli_vars

\* src/orf_analyzer.py:55: the while condition is false
WhileExit ==
    /\ pc = "while"
    /\ ~(i + 3 <= Len(working_seq))
    /\ pc' = "for_frame"
    /\ UNCHANGED <<seq, min_len, orfs, seq_len, rc_seq, strand, frame, i, result>>
    /\ UNCHANGED cli_vars

\* src/orf_analyzer.py:53-54: next frame of the same strand
NextFrame ==
    /\ pc = "for_frame"
    /\ frame < 2
    /\ frame' = frame + 1
    /\ i' = frame + 1
    /\ pc' = "while"
    /\ UNCHANGED <<seq, min_len, orfs, seq_len, rc_seq, strand, result>>
    /\ UNCHANGED cli_vars

\* src/orf_analyzer.py:52-54: frames of "+" exhausted, on to "-"
NextStrand ==
    /\ pc = "for_frame"
    /\ frame = 2
    /\ strand = "+"
    /\ strand' = "-"
    /\ frame' = 0
    /\ i' = 0
    /\ pc' = "while"
    /\ UNCHANGED <<seq, min_len, orfs, seq_len, rc_seq, result>>
    /\ UNCHANGED cli_vars

\* src/orf_analyzer.py:79
Return ==
    /\ pc = "for_frame"
    /\ frame = 2
    /\ strand = "-"
    /\ result' = sorted(orfs)
    /\ pc' = "done"
    /\ UNCHANGED <<seq, min_len, orfs, seq_len, rc_seq, strand, frame, i>>
    /\ UNCHANGED cli_vars

Next ==
    \/ Enter
    \/ WhileNotStart
    \/ WhileOrf
    \/ WhileOpen
    \/ WhileExit
    \/ NextFrame
    \/ NextStrand
    \/ Return

Spec == Init /\ [][Next]_vars

\* the interpreter runs the call to its end: every enabled step is taken
FairSpec == Spec /\ WF_vars(Next)

TypeOK ==
    /\ pc \in {"call", "while", "for_frame", "done"}
    /\ strand \in {"+", "-"}
    /\ frame \in 0..2
    /\ i \in Nat
(* ---------------------- find_orfs as a function ------------------------ *)
\* a too-short span whose stop codon is not consumed: the walk goes on at
\* the codon behind the start
ScanFrame_noconsume(ws, st, fr, k, L, n) ==
    LET RECURSIVE W(_)
        W(a) ==
            IF ~(a + 3 <= Len(ws)) THEN <<>>
            ELSE IF Slice(ws, a, a + 3) # <<"A", "T", "G">> THEN W(a + 3)
            ELSE LET j == ForJ(ws, a)
                 IN  IF j = -1 THEN <<>>
                     ELSE IF j + 3 - a >= L
                          THEN <<Orf(st, fr, a, j, n)>> \o W((j + 3) + 3)
                          ELSE W(a + 3)
    IN  W(k)

\* src/orf_analyzer.py:55-77: the while loop of one (strand, frame) from
\* offset k on: the candidates it appends, in order
RECURSIVE ScanFrame(_, _, _, _, _, _)
ScanFrame(ws, st, fr, k, L, n) ==
    IF ~(k + 3 <= Len(ws)) THEN <<>>
    ELSE IF Slice(ws, k, k + 3) # <<"A", "T", "G">>
         THEN ScanFrame(ws, st, fr, k + 3, L, n)
    ELSE LET j == ForJ(ws, k)
         IN  IF j = -1 THEN <<>>
             ELSE (IF j + 3 - k >= L THEN <<Orf(st, fr, k, j, n)>> ELSE <<>>)
                  \o ScanFrame(ws, st, fr, (j + 3) + 3, L, n)

\* src/orf_analyzer.py:42-79
find_orfs(S, L) ==
    LET rc == reverse_complement(S)
        n  == Len(S)
    IN  sorted(ScanFrame(S, "+", 0, 0, L, n) \o ScanFrame(S, "+", 1, 1, L, n)
               \o ScanFrame(S, "+", 2, 2, L, n)
               \o ScanFrame(rc, "-", 0, 0, L, n) \o ScanFrame(rc, "-", 1, 1, L, n)
               \o ScanFrame(rc, "-", 2, 2, L, n))


(* ---------------------------- command line ---------------------------- *)
\* a text line is a sequence of one-character strings, a file a sequence of
\* lines
Whitespace == {" ", "\n", "\t", "\r"}

\* str.rstrip()
RECURSIVE rstrip(_)
rstrip(line) ==
    IF line = <<>> THEN <<>>
    ELSE IF line[Len(line)] \in Whitespace THEN rstrip(SubSeq(line, 1, Len(line) - 1))
    ELSE line

\* str.upper() on the letters the inputs use
upper(text) ==
    LET up == [c \in {"a", "c", "g", "t", "n", "h"} |->
                  CASE c = "a" -> "A" [] c = "c" -> "C" [] c = "g" -> "G"
                    [] c = "t" -> "T" [] c = "n" -> "N" [] c = "h" -> "H"]
    IN  [k \in 1..Len(text) |-> IF text[k] \in DOMAIN up THEN up[text[k]] ELSE text[k]]

\* src/orf_analyzer.py:26-37: the loop over the lines from line k on; has
\* says that header is not None
RECURSIVE ParseLines(_, _, _, _, _, _)
ParseLines(lines, k, has, header, seq_parts, recs) ==
    IF k > Len(lines)
    THEN IF has THEN Append(recs, <<header, upper(seq_parts)>>) ELSE recs
    ELSE LET line == rstrip(lines[k])
         IN  IF line = <<>>
             THEN ParseLines(lines, k + 1, has, header, seq_parts, recs)
             ELSE IF line[1] = ">"
             THEN ParseLines(lines, k + 1, TRUE, Tail(line), <<>>,
                             IF has THEN Append(recs, <<header, upper(seq_parts)>>) ELSE recs)
             ELSE ParseLines(lines, k + 1, has, header, seq_parts \o line, recs)

\* src/orf_analyzer.py:22-38
parse_fasta(lines) == ParseLines(lines, 1, FALSE, <<>>, <<>>, <<>>)

\* src/orf_analyzer.py:131-143: the input file of orf_analyzer.py, or the
\* error it exits with
MainResolve(file, files) ==
    IF file # ""
    THEN IF file \notin DOMAIN files
         THEN [ok |-> FALSE, path |-> "", err |-> "File not found"]
         ELSE [ok |-> TRUE, path |-> file, err |-> ""]
    ELSE IF Cardinality(DOMAIN files) = 1
         THEN [ok |-> TRUE, path |-> CHOOSE f \in DOMAIN files : TRUE, err |-> ""]
         ELSE IF Cardinality(DOMAIN files) = 0
         THEN [ok |-> FALSE, path |-> "", err |-> "No .fasta file found"]
         ELSE [ok |-> FALSE, path |-> "", err |-> "Multiple .fasta files found"]

\* src/seqtools.py:22-36
resolve_input(positional_file, files) ==
    IF positional_file # ""
    THEN IF positional_file \notin DOMAIN files
         THEN [ok |-> FALSE, path |-> "", err |-> "File not found"]
         ELSE [ok |-> TRUE, path |-> positional_file, err |-> ""]
    ELSE IF Cardinality(DOMAIN files) = 1
         THEN [ok |-> TRUE, path |-> CHOOSE f \in DOMAIN files : TRUE, err |-> ""]
         ELSE IF Cardinality(DOMAIN files) = 0
         THEN [ok |-> FALSE, path |-> "", err |-> "No .fasta file found"]
         ELSE [ok |-> FALSE, path |-> "", err |-> "Multiple .fasta files found"]

\* what the script has printed or exited with
Event(e, k) == [ev |-> e, rec |-> k]

\* the files of the inputs
LINE_HEADER == <<">", "h", "\n">>
LINE_BLANK == <<" ", "\n">>
LINE_ACGT == <<"a", "c", "g", "t", "\n">>
LINE_ATGAAA == <<"A", "T", "G", "A", "A", "A", "\n">>
LINE_TAA == <<"T", "A", "A", "\n">>

FileContents ==
    { <<>>,
      <<LINE_BLANK>>,
      <<LINE_ACGT>>,
      <<LINE_HEADER>>,
      <<LINE_HEADER, LINE_ACGT>>,
      <<LINE_HEADER, LINE_ATGAAA, LINE_BLANK, LINE_TAA>>,
      <<LINE_HEADER, LINE_ATGAAA, LINE_TAA, LINE_HEADER, LINE_ACGT>> }

FileNames == {"a.fasta", "b.fasta"}

\* the working directory: some of the files exist
FileSystems == UNION {[D -> FileContents] : D \in SUBSET FileNames}

CliInit ==
    /\ seq = <<>>
    /\ min_len = 100
    /\ pc = "call"
    /\ orfs = <<>>
    /\ seq_len = 0
    /\ rc_seq = <<>>
    /\ strand = "+"
    /\ frame = 0
    /\ i = 0
    /\ result = <<>>
    /\ prog \in {"orf_analyzer", "seqtools"}
    /\ arg_file \in {""} \cup FileNames
    /\ args_min \in {6, 100}
    /\ fs \in FileSystems
    /\ cli_pc = "main"
    /\ filepath = ""
    /\ records = <<>>
    /\ idx = 0
    /\ out = <<>>
    /\ exit_code = -1

\* src/orf_analyzer.py:128-143
OrfMainResolve ==
    /\ prog = "orf_analyzer"
    /\ cli_pc = "main"
    /\ LET r == MainResolve(arg_file, fs)
       IN  IF r.ok
           THEN /\ filepath' = r.path
                /\ cli_pc' = "parse"
                /\ UNCHANGED <<out, exit_code>>
           ELSE /\ out' = Append(out, Event(r.err, 0))
                /\ exit_code' = 1
                /\ cli_pc' = "exit"
                /\ UNCHANGED filepath
    /\ UNCHANGED <<prog, arg_file, args_min, fs, records, idx>>
    /\ UNCHANGED orf_vars

\* src/orf_analyzer.py:145-150
OrfMainParse ==
    /\ prog = "orf_analyzer"
    /\ cli_pc = "parse"
    /\ records' = parse_fasta(fs[filepath])
    /\ IF records' = <<>>
       THEN /\ out' = Append(out, Event("No sequences found in file", 0))
            /\ exit_code' = 1
            /\ cli_pc' = "exit"
       ELSE /\ out' = Append(out, Event("file_info", 0))
            /\ cli_pc' = "run"
            /\ UNCHANGED exit_code
    /\ UNCHANGED <<prog, arg_file, args_min, fs, filepath, idx>>
    /\ UNCHANGED orf_vars

\* src/seqtools.py:96-109 with the subcommand "orf"
SeqtoolsResolve ==
    /\ prog = "seqtools"
    /\ cli_pc = "main"
    /\ LET r == resolve_input(arg_file, fs)
       IN  IF r.ok
           THEN /\ filepath' = r.path
                /\ cli_pc' = "parse"
                /\ UNCHANGED <<out, exit_code>>
           ELSE /\ out' = Append(out, Event(r.err, 0))
                /\ exit_code' = 1
                /\ cli_pc' = "exit"
                /\ UNCHANGED filepath
    /\ UNCHANGED <<prog, arg_file, args_min, fs, records, idx>>
    /\ UNCHANGED orf_vars

\* src/seqtools.py:111-119 and cmd_orf, 43-45, up to the call of run
SeqtoolsCmdOrf ==
    /\ prog = "seqtools"
    /\ cli_pc = "parse"
    /\ out' = Append(out, Event("file_info", 0))
    /\ records' = parse_fasta(fs[filepath])
    /\ cli_pc' = "run"
    /\ UNCHANGED <<prog, arg_file, args_min, fs, filepath, idx, exit_code>>
    /\ UNCHANGED orf_vars

\* src/orf_analyzer.py:83-86
RunBanner ==
    /\ cli_pc = "run"
    /\ out' = Append(out, Event("ORF FINDER", 0))
    /\ idx' = 1
    /\ cli_pc' = "for_records"
    /\ UNCHANGED <<prog, arg_file, args_min, fs, filepath, records, exit_code>>
    /\ UNCHANGED orf_vars

\* src/orf_analyzer.py:88-111: one record
RunRecord ==
    /\ cli_pc = "for_records"
    /\ idx <= Len(records)
    /\ LET found == find_orfs(records[idx][2], args_min)
       IN  out' = IF found = <<>>
                  THEN out \o <<Event("record", idx), Event("No ORFs found", idx)>>
                  ELSE out \o <<Event("record", idx), Event("Total ORFs", idx)>>
    /\ idx' = idx + 1
    /\ UNCHANGED <<prog, arg_file, args_min, fs, cli_pc, filepath, records, exit_code>>
    /\ UNCHANGED orf_vars

\* src/orf_analyzer.py:88, 151 and src/seqtools.py:119: the loop is over, run
\* returns and the script ends
RunReturn ==
    /\ cli_pc = "for_records"
    /\ idx > Len(records)
    /\ exit_code' = 0
    /\ cli_pc' = "exit"
    /\ UNCHANGED <<prog, arg_file, args_min, fs, filepath, records, idx, out>>
    /\ UNCHANGED orf_vars

CliNext ==
    \/ OrfMainResolve
    \/ OrfMainParse
    \/ SeqtoolsResolve
    \/ SeqtoolsCmdOrf
    \/ RunBanner
    \/ RunRecord
    \/ RunReturn

CliSpec == CliInit /\ [][CliNext]_vars

(* ---------------------------- properties ------------------------------- *)
ATG == <<"A", "T", "G">>
Stops == {<<"T", "A", "A">>, <<"T", "A", "G">>, <<"T", "G", "A">>}

\* the codon of s at 0-based offset k
CodonAt(s, k) == <<s[k + 1], s[k + 2], s[k + 3]>>

\* j is the offset of the first in-frame stop codon of s at or behind i
FirstStopAt(s, a, j) ==
    /\ j >= a
    /\ (j - a) % 3 = 0
    /\ j + 3 <= Len(s)
    /\ CodonAt(s, j) \in Stops
    /\ \A k \in a..(j - 1) : (k - a) % 3 = 0 => CodonAt(s, k) \notin Stops

HasStop(s, a) == \E j \in a..(Len(s) - 3) : FirstStopAt(s, a, j)

\* the candidates found so far and, once returned, the returned ones
Candidates == {orfs[k] : k \in 1..Len(orfs)} \cup {result[k] : k \in 1..Len(result)}

\* C1: every candidate has length = end - start + 1, a positive multiple of
\* 3 that is >= min_len, and 1 <= start <= end <= len(seq), on both strands.
C1_CandidateShape ==
    \A r \in Candidates :
        /\ r.length = r.end - r.start + 1
        /\ r.length > 0
        /\ r.length % 3 = 0
        /\ r.length >= min_len
        /\ 1 <= r.start /\ r.start <= r.end /\ r.end <= Len(seq)

C1_Witness ==
    /\ pc = "done"
    /\ \E k \in 1..Len(result) : result[k].strand = "+"
    /\ \E k \in 1..Len(result) : result[k].strand = "-"

\* the nucleotides a candidate denotes, read on its own strand
ReadOf(r) ==
    IF r.strand = "+"
    THEN SubSeq(seq, r.start, r.end)
    ELSE reverse_complement(SubSeq(seq, r.start, r.end))

\* C2: read on its own strand, every candidate begins with ATG, ends with a
\* stop codon and has no other in-frame stop codon before the last codon.
C2_ReadsAsOrf ==
    \A r \in Candidates :
        LET rd == ReadOf(r)
        IN  /\ Len(rd) >= 6
            /\ Len(rd) % 3 = 0
            /\ CodonAt(rd, 0) = ATG
            /\ FirstStopAt(rd, 0, Len(rd) - 3)

C2_Witness ==
    /\ pc = "done"
    /\ \E k \in 1..Len(result) : result[k].strand = "-" /\ result[k].length >= 9
    /\ \E k \in 1..Len(result) : result[k].strand = "+" /\ result[k].length >= 9

\* C3: after a start at i finds its first in-frame stop at j, the next codon
\* examined as a possible start is the one at offset j + 3, so that an ATG
\* at j + 3 with a later in-frame stop yields its own candidate.
C3_ResumeAtStopPlus3 ==
    /\ [][(/\ pc = "while"
           /\ i + 3 <= Len(working_seq)
           /\ CodonAt(working_seq, i) = ATG
           /\ HasStop(working_seq, i))
          => \E j \in i..(Len(working_seq) - 3) :
                 /\ FirstStopAt(working_seq, i, j)
                 /\ (j + 6 <= Len(working_seq) => i' = j + 3)]_vars
    /\ []((pc = "done" /\ min_len <= 6)
          => \A k \in 1..Len(result) :
                 (/\ result[k].strand = "+"
                  /\ result[k].end + 3 <= Len(seq)
                  /\ CodonAt(seq, result[k].end) = ATG
                  /\ HasStop(seq, result[k].end))
                 => \E l \in 1..Len(result) :
                        /\ result[l].strand = "+"
                        /\ result[l].frame = result[k].frame
                        /\ result[l].start = result[k].end + 1)

\* a precedes b in scan-emission order
EmittedBefore(a, b) ==
    \/ a.strand = "+" /\ b.strand = "-"
    \/ a.strand = b.strand /\ a.frame < b.frame
    \/ /\ a.strand = b.strand
       /\ a.frame = b.frame
       /\ IF a.strand = "+" THEN a.start < b.start ELSE a.end > b.end

Count(s, x) == Cardinality({k \in 1..Len(s) : s[k] = x})

\* C4: the returned list is ordered by length non-increasing, equal lengths
\* keep scan-emission order, and it holds exactly the candidates emitted.
C4_SortedStable ==
    pc = "done" =>
        /\ \A k, l \in 1..Len(result) :
               k < l => /\ result[k].length >= result[l].length
                        /\ result[k].length = result[l].length
                              => EmittedBefore(result[k], result[l])
        /\ Len(result) = Len(orfs)
        /\ \A r \in Candidates : Count(result, r) = Count(orfs, r)

C4_Witness ==
    /\ pc = "done"
    /\ \E k, l \in 1..Len(result) :
           /\ k < l
           /\ result[k].length = result[l].length
           /\ result[k].strand = result[l].strand
           /\ result[k].frame = result[l].frame
    /\ \E k, l \in 1..Len(orfs) : k < l /\ orfs[k].length < orfs[l].length
\* C5: a forward hit (i, j) is reported with strand "+", frame (i mod 3) + 1,
\* start i + 1, end j + 3, length j + 3 - i; find_orfs("ATGAAATAA", 1)
\* returns exactly that one candidate for i = 0, j = 6.
C5_ForwardHit ==
    /\ [][(/\ pc = "while"
           /\ strand = "+"
           /\ i + 3 <= Len(seq)
           /\ CodonAt(seq, i) = ATG
           /\ HasStop(seq, i))
          => \E j \in i..(Len(seq) - 3) :
                 /\ FirstStopAt(seq, i, j)
                 /\ orfs' = IF j + 3 - i >= min_len
                            THEN Append(orfs, [strand |-> "+",
                                               frame  |-> (i % 3) + 1,
                                               start  |-> i + 1,
                                               end    |-> j + 3,
                                               length |-> j + 3 - i])
                            ELSE orfs]_vars
    /\ []((pc = "done" /\ seq = SEQ_ATGAAATAA /\ min_len = 1)
          => result = <<[strand |-> "+", frame |-> 1, start |-> 1, end |-> 9, length |-> 9]>>)

C5_Witness ==
    /\ pc = "done"
    /\ seq = SEQ_ATGAAATAA
    /\ min_len = 1
    /\ Len(result) = 1

\* C6 as stated: for "AAATTAATGCCCTAAGGG" and min_len = 3 the candidate
\* start=9, end=17, length=9, strand "+", frame 3 is reported.
C6_Original ==
    (pc = "done" /\ seq = SEQ_18 /\ min_len = 3)
    => \E k \in 1..Len(result) :
           result[k] = [strand |-> "+", frame |-> 3, start |-> 9, end |-> 17, length |-> 9]

\* C6 amended: for "AAATTAATGCCCTAAGGG" and min_len = 3 the forward scan in
\* frame 0 (0-based) finds ATG at offset 6 and its stop TAA at offset 12, and
\* find_orfs returns exactly the candidate start=7, end=15, length=9,
\* strand "+", frame 1.
C6_Scenario ==
    /\ (seq = SEQ_18 /\ min_len = 3 /\ pc = "while" /\ strand = "+" /\ frame = 0 /\ i = 6)
       => /\ CodonAt(seq, 6) = ATG
          /\ FirstStopAt(seq, 6, 12)
          /\ CodonAt(seq, 12) = <<"T", "A", "A">>
    /\ (seq = SEQ_18 /\ min_len = 3 /\ pc = "while" /\ strand = "+" /\ frame = 2)
       => (i + 3 <= Len(seq) => CodonAt(seq, i) # ATG)
    /\ (seq = SEQ_18 /\ min_len = 3 /\ pc = "done")
       => result = <<[strand |-> "+", frame |-> 1, start |-> 7, end |-> 15, length |-> 9]>>

C6_Witness ==
    /\ pc = "done"
    /\ seq = SEQ_18
    /\ min_len = 3
    /\ Len(result) = 1

\* C7: when ATG is reached and no in-frame stop codon follows it, nothing is
\* emitted, the scan of that frame ends at once and everything else is left
\* as it was; find_orfs("ATGAAA", 1) returns the empty list.
C7_OpenOrfAbandonsFrame ==
    /\ [][(/\ pc = "while"
           /\ i + 3 <= Len(working_seq)
           /\ CodonAt(working_seq, i) = ATG
           /\ ~HasStop(working_seq, i))
          => /\ pc' = "for_frame"
             /\ orfs' = orfs
             /\ UNCHANGED <<strand, frame, seq, rc_seq, min_len>>]_vars
    /\ [][(pc = "for_frame" /\ pc' = "while")
          => /\ orfs' = orfs
             /\ <<strand', frame'>> # <<strand, frame>>
             /\ i' = frame']_vars
    /\ []((pc = "done" /\ seq = SEQ_ATGAAA /\ min_len = 1) => result = <<>>)

\* a frame abandoned at an open ATG after it had already emitted a candidate
C7_Witness ==
    /\ pc = "for_frame"
    /\ i + 3 <= Len(working_seq)
    /\ CodonAt(working_seq, i) = ATG
    /\ orfs # <<>>
    /\ orfs[Len(orfs)].strand = strand
    /\ orfs[Len(orfs)].frame = frame + 1

\* the Watson-Crick complement, other characters kept
WatsonCrick(c) ==
    CASE c = "A" -> "T"
      [] c = "T" -> "A"
      [] c = "C" -> "G"
      [] c = "G" -> "C"
      [] OTHER -> c

\* C8: reverse_complement(reverse_complement(S)) = S, also for strings with
\* characters outside ACGT.
C8_Involution ==
    pc # "call" => reverse_complement(rc_seq) = seq

C8_Witness ==
    /\ pc # "call"
    /\ \E k \in 1..Len(seq) : seq[k] \notin Bases
    /\ \E k \in 1..Len(seq) : seq[k] = "A"
    /\ \E k \in 1..Len(seq) : seq[k] = "C"
    /\ rc_seq # seq

\* C9: reverse_complement(S) has the length N of S and its character at
\* index n is the complement of S[N-1-n] for A, C, G, T and S[N-1-n] itself
\* otherwise.
C9_ReverseComplement ==
    pc # "call" =>
        /\ Len(rc_seq) = Len(seq)
        /\ \A n \in 0..(Len(seq) - 1) :
               rc_seq[n + 1] = WatsonCrick(seq[(Len(seq) - 1 - n) + 1])

C9_Witness ==
    /\ pc # "call"
    /\ Len(seq) >= 4
    /\ \E k \in 1..Len(seq) : seq[k] \notin Bases
    /\ \E k \in 1..Len(seq) : seq[k] = "G"
    /\ translate(seq, _COMP) # rc_seq

\* C10: find_orfs terminates with a list for every input; within one scan
\* the outer index strictly increases on every iteration; for len(S) < 3 the
\* returned list is empty.
C10_Terminates ==
    /\ <>(pc = "done")
    /\ [][(pc = "while" /\ pc' = "while" /\ strand' = strand /\ frame' = frame)
          => i' > i]_vars
    /\ [](pc = "while" => (i >= frame /\ (i - frame) % 3 = 0))
    /\ []((pc = "done" /\ Len(seq) < 3) => result = <<>>)

C10_Witness ==
    /\ pc = "done"
    /\ \E k \in 1..Len(seq) : seq[k] \notin Bases
    /\ Len(seq) >= 12
    /\ result # <<>>
\* the candidates of l with length >= L, in the order of l
AtLeast(l, L) == LET Keep(r) == r.length >= L IN SelectSeq(l, Keep)

\* the values of min_len the returned list is compared across
OtherLens == {-1, 1, 6, 7, 9, 10, 13}

\* C12: min_len only filters: for L1 <= L2, find_orfs(S, L2) is the sublist
\* of find_orfs(S, L1) of the candidates with length >= L2, in the same
\* order. The returned list of the run (for min_len) is compared with the
\* lists for the other values of min_len.
C12_MinLenOnlyFilters ==
    pc = "done" =>
        \A L \in OtherLens :
            /\ L <= min_len => result = AtLeast(find_orfs(seq, L), min_len)
            /\ min_len <= L => find_orfs(seq, L) = AtLeast(result, L)

\* a run in which a too-short span was found and dropped while a longer one
\* was kept
C12_Witness ==
    /\ pc = "done"
    /\ min_len = 7
    /\ result # <<>>
    /\ Len(find_orfs(seq, -1)) > Len(result)
\* the events that belong to an ORF report
ReportEvents == {"ORF FINDER", "record", "No ORFs found", "Total ORFs"}

Printed(e, k) == \E n \in 1..Len(out) : out[n] = Event(e, k)

\* the file the command line names: the argument, or else the only file
InputFile == IF arg_file # "" THEN arg_file ELSE CHOOSE f \in DOMAIN fs : TRUE

InputNamed == arg_file # "" \/ Cardinality(DOMAIN fs) = 1

\* C11: on both command lines a missing input file or a file without
\* records ends in an error exit and never in an ORF report, and a record
\* without ORFs of at least min_len ends in a successful report saying that
\* no ORFs were found.
C11_InputErrorNotReport ==
    (cli_pc = "exit" /\ InputNamed) =>
        IF InputFile \notin DOMAIN fs \/ parse_fasta(fs[InputFile]) = <<>>
        THEN /\ exit_code = 1
             /\ \A n \in 1..Len(out) : out[n].ev \notin ReportEvents
        ELSE LET recs == parse_fasta(fs[InputFile])
             IN  /\ exit_code = 0
                 /\ \A k \in 1..Len(recs) :
                        find_orfs(recs[k][2], args_min) = <<>> => Printed("No ORFs found", k)
====
